---------------------------- MODULE Spec2Model ----------------------------
(***************************************************************************)
(* The Insomnia collection importer of bruno-app                           *)
(* (components/RawFilePickerEditor/index.js, lines 87-337).                *)
(*                                                                         *)
(* JavaScript strings are sequences of one-character strings, so that the  *)
(* regular expressions, split(';') and the template literal of the source  *)
(* are computed character by character.  Resource ids are atoms: the code  *)
(* only compares them with ===.                                            *)
(***************************************************************************)
EXTENDS Naturals, Sequences, FiniteSets

VARIABLES
  pc,       \* "start" before the operation under study has run, "done" after
  data,     \* the parsed document handed to parseInsomniaCollection
  promise,  \* the promise parseInsomniaCollection returns
  settles,  \* the reject/resolve calls made on that promise, in order
  invoked,  \* which of createEnvironments / createFolderStructure were called
  caught,   \* the exception the catch of line 333 received, "none" if none
  arg,      \* the argument of a pure function applied on its own
  ret       \* its result

vars == <<pc, data, promise, settles, invoked, caught, arg, ret>>

-----------------------------------------------------------------------------
(* Bounds of the model.                                                    *)

MaxSiblings == 4   \* length of a sibling list handed to the de-duplicator
MaxDocRes == 3     \* resources of a document, classifier runs
MaxTreeRes == 4    \* resources of a document, tree runs
MaxEnvRes == 4     \* resources of a document, environment runs
MaxChunks == 8     \* pieces a text handed to normalizeVariables is made of
MaxPath == 3       \* segments of a key path in an environment's data
StackLimit == 6    \* nested calls the engine allows before its RangeError

-----------------------------------------------------------------------------
(* Helpers on sequences.                                                   *)

Min(S) == CHOOSE m \in S : \A n \in S : m <= n

RECURSIVE InOrder(_)
\* The indexes of S in increasing order: Array.prototype.filter keeps the
\* order of the array, and S is the set of indexes its callback accepts.
InOrder(S) == IF S = {} THEN <<>> ELSE <<Min(S)>> \o InOrder(S \ {Min(S)})

RECURSIVE Concat(_)
\* The concatenation of a sequence of sequences.
Concat(ss) == IF ss = <<>> THEN <<>> ELSE Head(ss) \o Concat(Tail(ss))

\* All sequences over S of length at most n.
SeqsUpTo(S, n) == UNION {[1..k -> S] : k \in 0..n}

Range(s) == {s[i] : i \in 1..Len(s)}

-----------------------------------------------------------------------------
(* Number to string, as the template literal `${nameSuffix}` renders it.   *)

Digits == <<"0", "1", "2", "3", "4", "5", "6", "7", "8", "9">>

RECURSIVE NumToString(_)
NumToString(n) ==
  IF n < 10 THEN <<Digits[n + 1]>>
  ELSE NumToString(n \div 10) \o <<Digits[(n % 10) + 1]>>

-----------------------------------------------------------------------------
(* addSuffixToDuplicateName, lines 103-112.  index is 1-based here.        *)

\* The reduce of lines 105-110: how many items before index carry the name.
RECURSIVE nameSuffixUpTo(_, _, _, _)
nameSuffixUpTo(item, index, allItems, otherIndex) ==
  IF otherIndex = 0 THEN 0
  ELSE nameSuffixUpTo(item, index, allItems, otherIndex - 1)
       + (IF allItems[otherIndex].name = item.name /\ otherIndex < index
          THEN 1 ELSE 0)

\* A slip in the comparison: the item itself is counted too.
addSuffixCountingSelf(item, index, allItems) ==
  LET nameSuffix == nameSuffixUpTo(item, index + 1, allItems, Len(allItems))
  IN IF nameSuffix # 0 THEN item.name \o <<"_">> \o NumToString(nameSuffix)
     ELSE item.name

addSuffixToDuplicateName(item, index, allItems) ==
  LET nameSuffix == nameSuffixUpTo(item, index, allItems, Len(allItems))
  IN IF nameSuffix # 0 THEN item.name \o <<"_">> \o NumToString(nameSuffix)
     ELSE item.name

\* The display names of a whole sibling list, as the two map calls
\* (line 278 over request groups, lines 288/292 over requests) compute them.
displayNames(allItems) ==
  [i \in 1..Len(allItems) |-> addSuffixToDuplicateName(allItems[i], i, allItems)]

-----------------------------------------------------------------------------
(* normalizeVariables, lines 114-125.                                      *)

\* What \s matches among the characters the model draws, and what the dot
\* of a regular expression does not match.
WhiteSpace == {" ", "\t", "\n", "\r"}
LineTerminators == {"\n", "\r"}

\* The end (position of the second brace) of the shortest {{.*?}} starting
\* at p, or 0 when "{{" at p is closed by no "}}" on the same line.
closeOf(s, p) ==
  LET ends == {j \in (p + 2)..(Len(s) - 1) :
                 /\ s[j] = "}" /\ s[j + 1] = "}"
                 /\ \A k \in (p + 2)..(j - 1) : s[k] \notin LineTerminators}
  IN IF ends = {} THEN 0 ELSE Min(ends) + 1

RECURSIVE matchVariables(_, _)
\* value.match(regexVariable), lines 114 and 120: the matches of the global
\* regular expression {{.*?}}, leftmost first, none overlapping, from p on.
matchVariables(s, p) ==
  IF p + 3 > Len(s) THEN <<>>
  ELSE IF s[p] = "{" /\ s[p + 1] = "{" /\ closeOf(s, p) # 0
       THEN <<SubSeq(s, p, closeOf(s, p))>> \o matchVariables(s, closeOf(s, p) + 1)
       ELSE matchVariables(s, p + 1)

RECURSIVE removeFrom(_, _)
\* variable.replaceAll(regexToRemove, ''), line 115: each "_." and each run
\* of whitespace and "]" goes, scanning the original text left to right.
removeFrom(s, p) ==
  IF p > Len(s) THEN <<>>
  ELSE IF s[p] = "_" /\ p < Len(s) /\ s[p + 1] = "." THEN removeFrom(s, p + 2)
  ELSE IF s[p] \in WhiteSpace \cup {"]"} THEN removeFrom(s, p + 1)
  ELSE <<s[p]>> \o removeFrom(s, p + 1)

\* .replaceAll(regexToUnderscore, '_'), line 116.
toUnderscore(s) ==
  [i \in 1..Len(s) |-> IF s[i] \in {".", "["} THEN "_" ELSE s[i]]

\* The rewritten text of one matched variable, line 122.
rewriteVariable(variable) == toUnderscore(removeFrom(variable, 1))

\* The first position >= from where pattern occurs in value, or 0.
indexOf(value, pattern, from) ==
  LET at == {i \in from..(Len(value) - Len(pattern) + 1) :
               SubSeq(value, i, i + Len(pattern) - 1) = pattern}
  IN IF at = {} THEN 0 ELSE Min(at)

RECURSIVE getSubstitution(_, _, _)
\* The replacement text of String.prototype.replaceAll for a string pattern:
\* "$$" stands for "$" and "$&" for the matched text; any other character
\* stands for itself.  (The two patterns that insert the text before and
\* after the match are written with quote characters, which the model's
\* texts never hold.)
getSubstitution(matched, replacement, p) ==
  IF p > Len(replacement) THEN <<>>
  ELSE IF replacement[p] = "$" /\ p < Len(replacement)
            /\ replacement[p + 1] \in {"$", "&"}
       THEN (IF replacement[p + 1] = "$" THEN <<"$">> ELSE matched)
            \o getSubstitution(matched, replacement, p + 2)
       ELSE <<replacement[p]>> \o getSubstitution(matched, replacement, p + 1)

RECURSIVE replaceAllFrom(_, _, _, _)
\* value.replaceAll(pattern, replacement), line 122, for a non-empty string
\* pattern: every occurrence in value, left to right, none overlapping.
replaceAllFrom(value, pattern, replacement, from) ==
  LET i == indexOf(value, pattern, from)
  IN IF i = 0 THEN SubSeq(value, from, Len(value))
     ELSE SubSeq(value, from, i - 1)
          \o getSubstitution(pattern, replacement, 1)
          \o replaceAllFrom(value, pattern, replacement, i + Len(pattern))

RECURSIVE eachVariable(_, _, _)
\* The each of lines 121-123 over the matches found in the original value.
eachVariable(value, variables, k) ==
  IF k > Len(variables) THEN value
  ELSE eachVariable(
         replaceAllFrom(value, variables[k], rewriteVariable(variables[k]), 1),
         variables, k + 1)

\* normalizeVariables on a string.
normalizeString(s) == eachVariable(s, matchVariables(s, 1), 1)

\* JavaScript values that need not be strings are tagged records.
Undefined == [t |-> "undefined"]
Null == [t |-> "null"]
Str(s) == [t |-> "string", s |-> s]
Num(n) == [t |-> "number", n |-> n]

falsy(v) ==
  \/ v.t \in {"undefined", "null"}
  \/ v.t = "string" /\ v.s = <<>>
  \/ v.t = "number" /\ v.n = 0

\* normalizeVariables, lines 118-125, of undefined, null or a string.
normalizeVariables(value) ==
  IF falsy(value) THEN <<>> ELSE normalizeString(value.s)

-----------------------------------------------------------------------------
(* Results of calls that may throw.                                        *)

Ok(v) == [ok |-> TRUE, v |-> v]
Thrown(e) == [ok |-> FALSE, err |-> e]

RECURSIVE firstThrown(_, _)
\* Array.prototype.map over callbacks that may throw: the first exception
\* ends the map, otherwise the array of the values.
firstThrown(rs, k) ==
  IF k > Len(rs) THEN Ok([i \in 1..Len(rs) |-> rs[i].v])
  ELSE IF ~rs[k].ok THEN rs[k] ELSE firstThrown(rs, k + 1)

-----------------------------------------------------------------------------
(* parseGraphQL, lines 87-101.                                             *)

JsonNull == <<"n", "u", "l", "l">>
JsonQuery == <<"{", "\"", "q", "u", "e", "r", "y", "\"", ":", "\"", "q", "\"", "}">>

\* JSON.parse on the body texts the model draws: the text null, one object
\* with a query and no variables, and texts that are no JSON at all.
jsonParse(text) ==
  IF text = JsonNull THEN Ok(Null)
  ELSE IF text = JsonQuery
       THEN Ok([t |-> "object", query |-> Str(<<"q">>), variables |-> Undefined])
  ELSE Thrown("SyntaxError")

parseGraphQL(text) ==
  LET graphql == jsonParse(text)
  IN IF graphql.ok /\ graphql.v.t = "object"
     THEN \* JSON.stringify(undefined, null, 2) is undefined
          [query |-> graphql.v.query, variables |-> Undefined]
     ELSE \* a SyntaxError, or the TypeError of reading null.query
          [query |-> Str(<<>>), variables |-> Str(<<>>)]

-----------------------------------------------------------------------------
(* transformInsomniaRequestItem, lines 127-244.                            *)

ApplicationJson == <<"a", "p", "p", "l", "i", "c", "a", "t", "i", "o", "n", "/", "j", "s", "o", "n">>
FormUrlEncoded == <<"a", "p", "p", "l", "i", "c", "a", "t", "i", "o", "n", "/", "x", "-", "w", "w", "w", "-", "f", "o", "r", "m", "-", "u", "r", "l", "e", "n", "c", "o", "d", "e", "d">>
MultipartFormData == <<"m", "u", "l", "t", "i", "p", "a", "r", "t", "/", "f", "o", "r", "m", "-", "d", "a", "t", "a">>
TextPlain == <<"t", "e", "x", "t", "/", "p", "l", "a", "i", "n">>
TextXml == <<"t", "e", "x", "t", "/", "x", "m", "l">>
ApplicationXml == <<"a", "p", "p", "l", "i", "c", "a", "t", "i", "o", "n", "/", "x", "m", "l">>
ApplicationGraphql == <<"a", "p", "p", "l", "i", "c", "a", "t", "i", "o", "n", "/", "g", "r", "a", "p", "h", "q", "l">>

\* s.split(';')[0]: the text before the first ';'.
splitFirst(s) ==
  LET at == {i \in 1..Len(s) : s[i] = ";"}
  IN IF at = {} THEN s ELSE SubSeq(s, 1, Min(at) - 1)

\* get(request, 'body.mimeType', ''), line 203: the default stands in for
\* undefined only, also when body itself is undefined or null.
getMimeType(request) ==
  IF request.body.t \in {"undefined", "null"} THEN Str(<<>>)
  ELSE IF request.body.mimeType.t = "undefined" THEN Str(<<>>)
  ELSE request.body.mimeType

\* get(request, 'authentication.type', ''), line 188.
getAuthType(request) ==
  IF request.authentication.t \in {"undefined", "null"} THEN Str(<<>>)
  ELSE IF request.authentication.type.t = "undefined" THEN Str(<<>>)
  ELSE request.authentication.type

\* get(request, 'authentication.<field>', '') for a present authentication.
getAuthField(v) == IF v.t = "undefined" THEN Str(<<>>) ELSE v

\* The auth block of lines 137-142 and 188-201.
authOf(request) ==
  LET authType == getAuthType(request)
      none == [mode |-> "none", basic |-> Null, bearer |-> Null, digest |-> Null]
  IN IF authType = Str(<<"b", "a", "s", "i", "c">>)
     THEN [none EXCEPT !.mode = "basic",
             !.basic = [username |-> normalizeVariables(getAuthField(request.authentication.username)),
                        password |-> normalizeVariables(getAuthField(request.authentication.password))]]
     ELSE IF authType = Str(<<"b", "e", "a", "r", "e", "r">>)
     THEN [none EXCEPT !.mode = "bearer",
             !.bearer = [token |-> normalizeVariables(getAuthField(request.authentication.token))]]
     ELSE none

\* The records pushed by the each of lines 210-218 and 221-230.
bodyParams(request, multipart) ==
  LET params == IF request.body.params.t = "undefined" THEN <<>>
                ELSE request.body.params.items
  IN [i \in 1..Len(params) |->
        IF multipart
        THEN [type |-> "text", name |-> params[i].name,
              value |-> normalizeVariables(params[i].value),
              enabled |-> ~params[i].disabled]
        ELSE [name |-> params[i].name,
              value |-> normalizeVariables(params[i].value),
              enabled |-> ~params[i].disabled]]

\* The body block of lines 145-152 and 203-241 for a base MIME type.
bodyOf(request, mimeType) ==
  LET none == [mode |-> "none", json |-> Null, text |-> Null, xml |-> Null,
               formUrlEncoded |-> <<>>, multipartForm |-> <<>>]
  IN CASE mimeType = ApplicationJson ->
            [none EXCEPT !.mode = "json",
                         !.json = Str(normalizeVariables(request.body.text))]
       [] mimeType = FormUrlEncoded ->
            [none EXCEPT !.mode = "formUrlEncoded",
                         !.formUrlEncoded = bodyParams(request, FALSE)]
       [] mimeType = MultipartFormData ->
            [none EXCEPT !.mode = "multipartForm",
                         !.multipartForm = bodyParams(request, TRUE)]
       [] mimeType = TextPlain ->
            [none EXCEPT !.mode = "text",
                         !.text = Str(normalizeVariables(request.body.text))]
       [] mimeType \in {TextXml, ApplicationXml} ->
            [none EXCEPT !.mode = "xml",
                         !.xml = Str(normalizeVariables(request.body.text))]
       [] mimeType = ApplicationGraphql ->
            [mode |-> "graphql", json |-> Null, text |-> Null, xml |-> Null,
             formUrlEncoded |-> <<>>, multipartForm |-> <<>>,
             graphql |-> parseGraphQL(normalizeVariables(request.body.text))]
       [] OTHER -> none

\* index is the position of request in allRequests.  The requests the model
\* draws have no headers, parameters or pathParameters, so the three each of
\* lines 156-186 push nothing.  uuid() is not modelled:
\* no code reads a uid back.  Instead every node carries, as src, the position
\* in the document (pos, which no code reads) of the resource it was built
\* from, so that a node can be traced to its resource.
transformInsomniaRequestItem(request, index, allRequests) ==
  LET name == addSuffixToDuplicateName(request, index, allRequests)
      mime == getMimeType(request)
  IN IF mime.t # "string"
     THEN \* line 203: null and numbers have no split method
          Thrown("TypeError")
     ELSE Ok([src |-> request.pos,
              name |-> name,
              type |-> IF splitFirst(mime.s) = ApplicationGraphql
                       THEN "graphql-request" ELSE "http-request",
              request |-> [url |-> normalizeVariables(request.url),
                           method |-> request.method,
                           auth |-> authOf(request),
                           headers |-> <<>>,
                           params |-> <<>>,
                           body |-> bodyOf(request, splitFirst(mime.s))]])

-----------------------------------------------------------------------------
(* createFolderStructure, lines 273-293.                                   *)

\* resources.filter(_type === type && parentId === parentId), as indexes.
childrenOf(resources, type, parentId) ==
  InOrder({i \in 1..Len(resources) :
             resources[i]._type = type /\ resources[i].parentId = parentId})

\* requests.map(transformInsomniaRequestItem) over the requests at idxs.
transformAll(resources, idxs) ==
  LET allRequests == [k \in 1..Len(idxs) |-> resources[idxs[k]]]
  IN firstThrown([k \in 1..Len(idxs) |->
                    transformInsomniaRequestItem(allRequests[k], k, allRequests)], 1)

RECURSIVE createFolderStructure(_, _, _)
\* depth counts the nested calls: the engine ends a recursion that outgrows
\* its call stack with a RangeError.
createFolderStructure(resources, parentId, depth) ==
  IF depth > StackLimit THEN Thrown("RangeError")
  ELSE
    LET requestGroups == childrenOf(resources, "request_group", parentId)
        requests == childrenOf(resources, "request", parentId)
        allFolder == [k \in 1..Len(requestGroups) |-> resources[requestGroups[k]]]
        folderOf(index) ==
          LET folder == allFolder[index]
              name == addSuffixToDuplicateName(folder, index, allFolder)
              ownRequests == childrenOf(resources, "request", folder._id)
              below == createFolderStructure(resources, folder._id, depth + 1)
              leaves == transformAll(resources, ownRequests)
          IN IF ~below.ok THEN below
             ELSE IF ~leaves.ok THEN leaves
             ELSE Ok([src |-> folder.pos, name |-> name, type |-> "folder",
                      items |-> below.v \o leaves.v])
        folders == firstThrown([k \in 1..Len(requestGroups) |-> folderOf(k)], 1)
        leaves == transformAll(resources, requests)
    IN IF ~folders.ok THEN folders
       ELSE IF ~leaves.ok THEN leaves
       ELSE Ok(folders.v \o leaves.v)

-----------------------------------------------------------------------------
(* createEnvironments, lines 302-327, and flatten of the flat package.     *)

RECURSIVE joinKey(_, _)
\* The key flatten gives a leaf: its path's segments (object keys as they
\* are, array indexes in decimal) joined by the delimiter '_'.
joinKey(path, k) ==
  LET seg == IF path[k].t = "key" THEN path[k].key ELSE NumToString(path[k].index)
  IN IF k = Len(path) THEN seg ELSE seg \o <<"_">> \o joinKey(path, k + 1)

\* flatten(environment.data || {}, { delimiter: '_' }) and Object.entries of
\* it, line 310.  An object is given by its leaves, each a path and a value; a
\* key written twice keeps its first place and its last value.
flatten(environmentData) ==
  LET leaves == IF environmentData.t \in {"undefined", "null"} THEN <<>>
                ELSE environmentData.leaves
      key(i) == joinKey(leaves[i].path, 1)
      firsts == InOrder({i \in 1..Len(leaves) : \A j \in 1..(i - 1) : key(j) # key(i)})
      last(i) == CHOOSE j \in i..Len(leaves) :
                   key(j) = key(i) /\ \A l \in (j + 1)..Len(leaves) : key(l) # key(i)
  IN [k \in 1..Len(firsts) |->
        [key |-> key(firsts[k]), value |-> leaves[last(firsts[k])].value]]

\* value.toString(), line 313: null and undefined have no method to call.
valueToString(value) ==
  CASE value.t = "string" -> Ok(value.s)
    [] value.t = "number" -> Ok(NumToString(value.n))
    [] OTHER -> Thrown("TypeError")

\* The variables of one environment, lines 310-317.
variablesOf(environment) ==
  LET entries == flatten(environment.data)
  IN firstThrown(
       [k \in 1..Len(entries) |->
          LET text == valueToString(entries[k].value)
          IN IF ~text.ok THEN text
             ELSE Ok([name |-> entries[k].key,
                      value |-> normalizeVariables(Str(text.v)),
                      enabled |-> TRUE, secret |-> FALSE, type |-> "text"])], 1)

RECURSIVE reduceEnvironments(_, _, _, _, _)
RECURSIVE createEnvironments(_, _, _)

\* A slip in line 325: the children are put before their parent.
reduceChildrenFirst(resources, environments, k, result, depth) ==
  IF k > Len(environments) THEN Ok(result)
  ELSE
    LET environment == resources[environments[k]]
        variables == variablesOf(environment)
        below == createEnvironments(resources, environment._id, depth + 1)
    IN IF ~variables.ok THEN variables
       ELSE IF ~below.ok THEN below
       ELSE reduceEnvironments(resources, environments, k + 1,
              result \o below.v
                     \o <<[src |-> environment.pos, name |-> environment.name,
                           variables |-> variables.v]>>,
              depth)

\* The reduce of lines 307-326 from the k-th environment of this level on.
reduceEnvironments(resources, environments, k, result, depth) ==
  IF k > Len(environments) THEN Ok(result)
  ELSE
    LET environment == resources[environments[k]]
        variables == variablesOf(environment)
        below == createEnvironments(resources, environment._id, depth + 1)
    IN IF ~variables.ok THEN variables
       ELSE IF ~below.ok THEN below
       ELSE reduceEnvironments(resources, environments, k + 1,
              result \o <<[src |-> environment.pos, name |-> environment.name,
                           variables |-> variables.v]>> \o below.v,
              depth)

createEnvironments(resources, parentId, depth) ==
  IF depth > StackLimit THEN Thrown("RangeError")
  ELSE reduceEnvironments(resources,
         childrenOf(resources, "environment", parentId), 1, <<>>, depth)

-----------------------------------------------------------------------------
(* parseInsomniaCollection, lines 246-337.                                 *)

StructureError == "Collection not found inside Insomnia export"
ParsingError == "An error occurred while parsing the Insomnia collection"

\* resolve and reject of a promise: only the first call settles it.
settle(p, outcome) == IF p.state = "pending" THEN outcome ELSE p

RECURSIVE settleAll(_, _, _)
settleAll(p, outcomes, k) ==
  IF k > Len(outcomes) THEN p
  ELSE settleAll(settle(p, outcomes[k]), outcomes, k + 1)

rejected(message) == [state |-> "rejected", error |-> message]
fulfilled(value) == [state |-> "fulfilled", value |-> value]

\* insomniaResources.filter(...) of lines 267-271, keeping the records.
resourcesOfTypes(insomniaResources, types) ==
  LET idxs == InOrder({i \in 1..Len(insomniaResources) :
                         insomniaResources[i]._type \in types})
  IN [k \in 1..Len(idxs) |-> insomniaResources[idxs[k]]]

\* insomniaResources.find(_type === 'workspace'), line 259: the index of the
\* first workspace, 0 for undefined.
findWorkspace(insomniaResources) ==
  LET ws == {i \in 1..Len(insomniaResources) :
               insomniaResources[i]._type = "workspace"}
  IN IF ws = {} THEN 0 ELSE Min(ws)

\* What lines 329-335 do with the results of the two builders: the calls
\* made on resolve and reject, in order, which builders were invoked, and
\* what the catch of line 333 caught.
conclude(insomniaCollection, envs, items) ==
  IF ~envs.ok
  THEN [calls |-> <<rejected(ParsingError)>>,
        invoked |-> {"createEnvironments"}, caught |-> envs.err]
  ELSE IF ~items.ok
  THEN [calls |-> <<rejected(ParsingError)>>,
        invoked |-> {"createEnvironments", "createFolderStructure"},
        caught |-> items.err]
  ELSE [calls |-> <<fulfilled([name |-> insomniaCollection.name,
                               version |-> "1",
                               items |-> items.v,
                               environments |-> envs.v])>>,
        invoked |-> {"createEnvironments", "createFolderStructure"},
        caught |-> "none"]

\* Lines 265-332, for the workspace found.
convert(insomniaResources, insomniaCollection) ==
  conclude(insomniaCollection,
           createEnvironments(
             resourcesOfTypes(insomniaResources, {"environment"}),
             insomniaCollection._id, 1),
           createFolderStructure(
             resourcesOfTypes(insomniaResources, {"request", "request_group"}),
             insomniaCollection._id, 1))

\* A slip: the test of line 261 and its reject are missing, so that only the
\* catch of line 333 rejects.
classifyWithoutTest(insomniaResources, w) ==
  IF w = 0
  THEN [calls |-> <<rejected(ParsingError)>>, invoked |-> {},
        caught |-> "TypeError"]
  ELSE convert(insomniaResources, insomniaResources[w])

\* Lines 259-264, for the resource list read.
classify(insomniaResources, w) ==
  IF w = 0
  THEN \* line 262 rejects and does not return; line 265 then reads
       \* undefined.name, and the catch of line 333 rejects again
       [calls |-> <<rejected(StructureError), rejected(ParsingError)>>,
        invoked |-> {}, caught |-> "TypeError"]
  ELSE convert(insomniaResources, insomniaResources[w])

\* get(insomniaExport, 'resources', []), line 258.
getResources(insomniaExport) ==
  IF insomniaExport.resources.t = "undefined" THEN <<>>
  ELSE insomniaExport.resources.items

\* The executor of lines 255-336.
executor(insomniaExport) ==
  IF insomniaExport.resources.t = "null"
  THEN \* line 259: null has no find; the catch of line 333 rejects
       [calls |-> <<rejected(ParsingError)>>, invoked |-> {},
        caught |-> "TypeError"]
  ELSE classify(getResources(insomniaExport),
                findWorkspace(getResources(insomniaExport)))

\* The state a run of the executor leaves.
finish(run) ==
  /\ settles' = run.calls
  /\ invoked' = run.invoked
  /\ caught' = run.caught
  /\ promise' = settleAll(promise, run.calls, 1)

\* parseInsomniaCollection as one step.
ParseInsomniaCollection ==
  /\ pc = "start"
  /\ finish(executor(data))
  /\ pc' = "done"
  /\ UNCHANGED <<data, arg, ret>>

-----------------------------------------------------------------------------
(* Documents.                                                              *)

Idle == <<>>
NoPromise == [state |-> "pending"]

NoBody == Undefined
NoAuth == Undefined

Workspace(id) ==
  [_type |-> "workspace", _id |-> id, parentId |-> "null", name |-> <<"W">>]
RequestGroup(id, parent, name) ==
  [_type |-> "request_group", _id |-> id, parentId |-> parent, name |-> name]
Environment(id, parent, name, envData) ==
  [_type |-> "environment", _id |-> id, parentId |-> parent, name |-> name,
   data |-> envData]
\* No code reads the _id of a request.
Request(parent, name, url, auth, body) ==
  [_type |-> "request", _id |-> "req", parentId |-> parent, name |-> name,
   url |-> url, method |-> "GET", authentication |-> auth, body |-> body]

\* A document with these resources, each told its position.
Document(rs) ==
  [resources |-> [t |-> "array",
     items |-> [i \in 1..Len(rs) |->
                  [f \in DOMAIN rs[i] \cup {"pos"} |->
                     IF f = "pos" THEN i ELSE rs[i][f]]]]]

-----------------------------------------------------------------------------
(* The de-duplicator applied on its own to a sibling list.                 *)

SiblingNames == {<<"A">>, <<"B">>, <<"A", "_", "1">>}

InitNames ==
  /\ pc = "start"
  /\ arg \in {[i \in 1..Len(f) |-> [name |-> f[i]]] :
                f \in SeqsUpTo(SiblingNames, MaxSiblings)}
  /\ ret = Idle
  /\ data = Idle /\ promise = NoPromise /\ settles = <<>> /\ invoked = {}
  /\ caught = "none"

Dedup ==
  /\ pc = "start"
  /\ ret' = displayNames(arg)
  /\ pc' = "done"
  /\ UNCHANGED <<data, promise, settles, invoked, caught, arg>>

NextNames == Dedup

SpecNames == InitNames /\ [][NextNames]_vars

-----------------------------------------------------------------------------
(* normalizeVariables applied on its own, once and then to its own output. *)

TextChunks == {<<"{", "{">>, <<"}", "}">>, <<" ">>, <<".">>}

InitText ==
  /\ pc = "start"
  /\ arg \in {Concat(c) : c \in SeqsUpTo(TextChunks, MaxChunks)}
  /\ ret = Idle
  /\ data = Idle /\ promise = NoPromise /\ settles = <<>> /\ invoked = {}
  /\ caught = "none"

Normalize ==
  /\ pc = "start"
  /\ ret' = <<normalizeVariables(Str(arg))>>
  /\ pc' = "once"
  /\ UNCHANGED <<data, promise, settles, invoked, caught, arg>>

NormalizeAgain ==
  /\ pc = "once"
  /\ ret' = ret \o <<normalizeVariables(Str(ret[1]))>>
  /\ pc' = "done"
  /\ UNCHANGED <<data, promise, settles, invoked, caught, arg>>

NextText == Normalize \/ NormalizeAgain

SpecText == InitText /\ [][NextText]_vars


-----------------------------------------------------------------------------
(* parseInsomniaCollection on documents with and without a workspace.      *)

NameA == <<"A">>
NameE == <<"E">>

DocResources ==
  {Workspace("w"), RequestGroup("a", "w", NameA),
   Request("w", NameA, Undefined, NoAuth, NoBody),
   Environment("x", "w", NameE, Undefined)}

InitDoc ==
  /\ pc = "start"
  /\ data \in {Document(rs) : rs \in SeqsUpTo(DocResources, MaxDocRes)}
               \cup {[resources |-> Undefined], [resources |-> Null]}
  /\ promise = NoPromise /\ settles = <<>> /\ invoked = {} /\ caught = "none"
  /\ arg = Idle /\ ret = Idle

SpecDoc == InitDoc /\ [][ParseInsomniaCollection]_vars

-----------------------------------------------------------------------------
(* parseInsomniaCollection on trees of request groups and requests.  The   *)
(* ids of groups and the parents of groups and requests range over TreeIds, *)
(* so parents may be missing, shared, their own child or an id borne twice. *)

TreeIds == {"w", "a", "b"}

TreeResources ==
  {Workspace("w")}
  \cup {RequestGroup(id, parent, NameA) : id \in TreeIds, parent \in TreeIds}
  \cup {Request(parent, NameA, Undefined, NoAuth, NoBody) : parent \in TreeIds}

InitTree ==
  /\ pc = "start"
  /\ data \in {Document(rs) : rs \in SeqsUpTo(TreeResources, MaxTreeRes)}
  /\ promise = NoPromise /\ settles = <<>> /\ invoked = {} /\ caught = "none"
  /\ arg = Idle /\ ret = Idle

SpecTree == InitTree /\ [][ParseInsomniaCollection]_vars

-----------------------------------------------------------------------------
(* parseInsomniaCollection on trees of environments.                       *)

EnvIds == {"a", "b", "c"}
EnvParents == {"w", "a", "b"}

TokenX == [t |-> "object",
           leaves |-> <<[path |-> <<[t |-> "key", key |-> <<"t">>]>>,
                         value |-> Str(<<"x">>)]>>]

EnvResources ==
  {Workspace("w")}
  \cup {Environment(id, parent, NameE, TokenX) : id \in EnvIds, parent \in EnvParents}

InitEnv ==
  /\ pc = "start"
  /\ data \in {Document(rs) : rs \in SeqsUpTo(EnvResources, MaxEnvRes)}
  /\ promise = NoPromise /\ settles = <<>> /\ invoked = {} /\ caught = "none"
  /\ arg = Idle /\ ret = Idle

SpecEnv == InitEnv /\ [][ParseInsomniaCollection]_vars

-----------------------------------------------------------------------------
(* parseInsomniaCollection on one request under the workspace, over the    *)
(* values its body, url and authentication may hold.                       *)

RefAB == <<"{", "{", " ", "a", ".", "b", " ", "}", "}">>
Charset == <<";", " ", "c", "h", "a", "r", "s", "e", "t", "=", "u", "t", "f", "-", "8">>
TextHtml == <<"t", "e", "x", "t", "/", "h", "t", "m", "l">>

TableMimeTypes ==
  {ApplicationJson, FormUrlEncoded, MultipartFormData, TextPlain, TextXml,
   ApplicationXml, ApplicationGraphql}

MimeValues ==
  {Undefined, Null, Num(5), Str(<<>>), Str(TextHtml), Str(TextHtml \o Charset)}
  \cup {Str(m) : m \in TableMimeTypes}
  \cup {Str(m \o Charset) : m \in TableMimeTypes}

BodyTexts == {Undefined, Str(RefAB), Str(JsonNull), Str(JsonQuery)}

BodyParams ==
  {Undefined,
   [t |-> "array",
    items |-> <<[name |-> <<"p">>, value |-> Str(RefAB), disabled |-> FALSE]>>]}

Bodies ==
  {Undefined}
  \cup {[t |-> "object", mimeType |-> m, text |-> x, params |-> ps] :
          m \in MimeValues, x \in BodyTexts, ps \in BodyParams}

Auths ==
  {Undefined,
   [t |-> "object", type |-> Str(<<"b", "a", "s", "i", "c">>),
    username |-> Str(RefAB), password |-> Undefined, token |-> Undefined],
   [t |-> "object", type |-> Str(<<"b", "e", "a", "r", "e", "r">>),
    username |-> Undefined, password |-> Undefined, token |-> Str(RefAB)],
   [t |-> "object", type |-> Str(<<"o", "a", "u", "t", "h", "2">>),
    username |-> Undefined, password |-> Undefined, token |-> Undefined]}

InitBody ==
  /\ pc = "start"
  /\ data \in {Document(<<Workspace("w"), Request("w", NameA, url, auth, body)>>) :
                 url \in {Undefined, Str(RefAB)}, auth \in Auths, body \in Bodies}
  /\ promise = NoPromise /\ settles = <<>> /\ invoked = {} /\ caught = "none"
  /\ arg = Idle /\ ret = Idle

SpecBody == InitBody /\ [][ParseInsomniaCollection]_vars

-----------------------------------------------------------------------------
(* parseInsomniaCollection on one environment whose data holds one nested  *)
(* value, the text of a reference to that very value.                      *)

Key(k) == [t |-> "key", key |-> k]
Index(i) == [t |-> "index", index |-> i]

FirstSegments == {Key(<<"a">>), Key(<<"b", "_">>), Key(<<"c">>)}
Segments == FirstSegments \cup {Index(0), Index(1)}

Paths ==
  {<<first>> \o rest : first \in FirstSegments, rest \in SeqsUpTo(Segments, MaxPath - 1)}

RECURSIVE accessors(_, _)
\* The source's way to write the path from its k-th segment on: ".key" for
\* an object key, "[i]" for an array index.
accessors(path, k) ==
  IF k > Len(path) THEN <<>>
  ELSE (IF path[k].t = "key" THEN <<".">> \o path[k].key
        ELSE <<"[">> \o NumToString(path[k].index) \o <<"]">>)
       \o accessors(path, k + 1)

\* The reference {{ _.k1.k2[i] }} to the value at path.
Reference(path) ==
  <<"{", "{", " ", "_">> \o accessors(path, 1) \o <<" ", "}", "}">>

\* A workspace and one environment whose data holds value at path.
EnvDocument(path, value) ==
  Document(<<Workspace("w"),
             Environment("a", "w", NameE,
               [t |-> "object",
                leaves |-> <<[path |-> path, value |-> value]>>])>>)

InitFlatten ==
  /\ pc = "start"
  /\ data \in UNION {{EnvDocument(path, Str(Reference(path))),
                       EnvDocument(path, Num(1)),
                       EnvDocument(path, Null)} : path \in Paths}
  /\ promise = NoPromise /\ settles = <<>> /\ invoked = {} /\ caught = "none"
  /\ arg = Idle /\ ret = Idle

SpecFlatten == InitFlatten /\ [][ParseInsomniaCollection]_vars

-----------------------------------------------------------------------------
(* What the properties below read off a state.                             *)

\* The resource list of the document, empty when there is none.
Resources == IF data.resources.t = "array" THEN data.resources.items ELSE <<>>

Fulfilled == pc = "done" /\ promise.state = "fulfilled"

\* The positions of the workspaces and of the resources of the type.
Holders(R, type) == {i \in 1..Len(R) : R[i]._type \in {"workspace", type}}

\* No two of them bear the same id: parent links then name one resource.
DistinctIds(R, type) ==
  \A i \in Holders(R, type) : \A j \in Holders(R, type) :
    i # j => R[i]._id # R[j]._id

RECURSIVE closure(_, _, _)
\* The ids in S and those of the resources of the type whose chain of
\* parentIds leads into S.
closure(R, type, S) ==
  LET more == S \cup {R[i]._id : i \in {j \in 1..Len(R) :
                                          R[j]._type = type /\ R[j].parentId \in S}}
  IN IF more = S THEN S ELSE closure(R, type, more)

RECURSIVE placed(_, _)
\* Every node of a tree with the position of the resource whose node holds
\* it (parent, for the nodes of items themselves).
placed(items, parent) ==
  Concat([k \in 1..Len(items) |->
            <<[node |-> items[k], parent |-> parent]>>
            \o (IF items[k].type = "folder"
                THEN placed(items[k].items, items[k].src) ELSE <<>>)])

NoWorkspace ==
  \/ data.resources.t = "undefined"
  \/ /\ data.resources.t = "array"
     /\ \A i \in 1..Len(Resources) : Resources[i]._type # "workspace"

-----------------------------------------------------------------------------
\* C1: a document whose resource list (possibly empty or absent) holds no
\* workspace is rejected with the structural error, the later reject of the
\* catch block changes nothing, and neither builder is invoked.
C1_NoWorkspaceRejects ==
  (pc = "done" /\ NoWorkspace) =>
    /\ promise = rejected(StructureError)
    /\ settles[1] = rejected(StructureError)
    /\ invoked = {}

\* A document of two resources, none a workspace, has been rejected: both
\* reject calls were made and the first one stands.
C1_Witness ==
  /\ pc = "done" /\ NoWorkspace /\ Len(Resources) = 2
  /\ settles = <<rejected(StructureError), rejected(ParsingError)>>
  /\ promise = rejected(StructureError)

\* C2: in a fulfilled conversion of a document whose workspace and request
\* groups bear distinct ids, every request whose chain of parents leads to
\* the workspace through request groups has exactly one leaf node, held by
\* the node of its direct parent.
C2_OneLeafPerRequest ==
  (Fulfilled /\ DistinctIds(Resources, "request_group")) =>
    LET R == Resources
        W == CHOOSE i \in 1..Len(R) : R[i]._type = "workspace"
        reach == closure(R, "request_group", {R[W]._id})
        N == placed(promise.value.items, W)
    IN \A i \in 1..Len(R) :
         (R[i]._type = "request" /\ R[i].parentId \in reach) =>
           LET leaves == {k \in 1..Len(N) :
                            N[k].node.type # "folder" /\ N[k].node.src = i}
               holder == CHOOSE j \in Holders(R, "request_group") :
                           R[j]._id = R[i].parentId
           IN /\ Cardinality(leaves) = 1
              /\ \A k \in leaves : N[k].parent = holder

\* C3: the display name at index i is the source name when no earlier
\* sibling has that name, and name_N when N > 0 earlier siblings have it; so
\* distinct names come back unchanged and A, B, A, A gives A, B, A_1, A_2.
C3_SuffixRule ==
  pc = "done" =>
    /\ Len(ret) = Len(arg)
    /\ \A i \in 1..Len(arg) :
         LET N == Cardinality({j \in 1..(i - 1) : arg[j].name = arg[i].name})
         IN /\ N = 0 => ret[i] = arg[i].name
            /\ N > 0 => ret[i] = arg[i].name
                                 \o <<"_", <<"1", "2", "3", "4", "5", "6", "7", "8", "9">>[N]>>
    /\ (\A i \in 1..Len(arg) : \A j \in 1..Len(arg) :
          i # j => arg[i].name # arg[j].name)
       => ret = [i \in 1..Len(arg) |-> arg[i].name]
    /\ [i \in 1..Len(arg) |-> arg[i].name] = <<<<"A">>, <<"B">>, <<"A">>, <<"A">>>>
       => ret = <<<<"A">>, <<"B">>, <<"A", "_", "1">>, <<"A", "_", "2">>>>

\* The siblings A, B, A, A have been named A, B, A_1, A_2.
C3_Witness ==
  /\ pc = "done"
  /\ [i \in 1..Len(arg) |-> arg[i].name] = <<<<"A">>, <<"B">>, <<"A">>, <<"A">>>>
  /\ ret = <<<<"A">>, <<"B">>, <<"A", "_", "1">>, <<"A", "_", "2">>>>

\* C4: the display names given to a list of siblings of one kind are
\* pairwise different, whatever the source names.
C4_NamesCollisionFree ==
  pc = "done" =>
    \A i \in 1..Len(ret) : \A j \in 1..Len(ret) : i # j => ret[i] # ret[j]

\* The body mode the table of MIME types gives the value at body.mimeType.
ExpectedMode(v) ==
  CASE v \in {Str(ApplicationJson), Str(ApplicationJson \o Charset)} -> "json"
    [] v \in {Str(FormUrlEncoded), Str(FormUrlEncoded \o Charset)} -> "formUrlEncoded"
    [] v \in {Str(MultipartFormData), Str(MultipartFormData \o Charset)} -> "multipartForm"
    [] v \in {Str(TextPlain), Str(TextPlain \o Charset)} -> "text"
    [] v \in {Str(TextXml), Str(TextXml \o Charset)} -> "xml"
    [] v \in {Str(ApplicationXml), Str(ApplicationXml \o Charset)} -> "xml"
    [] v \in {Str(ApplicationGraphql), Str(ApplicationGraphql \o Charset)} -> "graphql"
    [] OTHER -> "none"

\* C5: whatever body.mimeType holds (a table entry with or without
\* parameters, another string, nothing, null, a number), the conversion is
\* fulfilled and the request's item has the body mode of the table, "none"
\* for every value outside it.
C5_BodyMappingTotal ==
  pc = "done" =>
    LET body == Resources[2].body
        mimeType == IF body.t = "undefined" THEN Undefined ELSE body.mimeType
    IN /\ promise.state = "fulfilled"
       /\ Len(promise.value.items) = 1
       /\ promise.value.items[1].request.body.mode = ExpectedMode(mimeType)

\* C6: normalizeVariables applied to its own output changes nothing, and no
\* {{...}} span of its output holds whitespace, a bracket or a dot.
C6_Idempotent ==
  pc = "done" =>
    /\ ret[2] = ret[1]
    /\ \A span \in Range(matchVariables(ret[1], 1)) :
         Range(span) \cap (WhiteSpace \cup {"]", "[", "."}) = {}

\* C7: the variable flatten names for a nested value is the identifier
\* normalizeVariables leaves between the braces of the reference
\* {{ _.k1.k2[i] }} to that value.
C7_NamesAgree ==
  (pc = "done" /\ Resources[2].data.leaves[1].value.t = "string") =>
    /\ promise.state = "fulfilled"
    /\ LET variable == promise.value.environments[1].variables[1]
       IN variable.value = <<"{", "{">> \o variable.name \o <<"}", "}">>

\* In items, folder nodes come before request nodes.
FoldersFirst(items) ==
  \A p \in 1..Len(items) : \A q \in 1..Len(items) :
    (p < q /\ items[q].type = "folder") => items[p].type = "folder"

\* In items, nodes of one kind stand in the order of their resources.
SourceOrderKept(items) ==
  \A p \in 1..Len(items) : \A q \in 1..Len(items) :
    (p < q /\ (items[p].type = "folder") = (items[q].type = "folder"))
      => items[p].src <= items[q].src

\* C8: at the root and in every folder, at every depth, folder nodes come
\* before request nodes and each kind keeps the order of the source list.
C8_FoldersThenRequestsInOrder ==
  (Fulfilled /\ DistinctIds(Resources, "request_group")) =>
    LET N == placed(promise.value.items, 0)
    IN /\ FoldersFirst(promise.value.items)
       /\ SourceOrderKept(promise.value.items)
       /\ \A k \in 1..Len(N) :
            N[k].node.type = "folder" =>
              /\ FoldersFirst(N[k].node.items)
              /\ SourceOrderKept(N[k].node.items)

C10_RecursionEnds == pc = "done" => caught # "RangeError"

=============================================================================
